---- MODULE Spec2Model ----
(***************************************************************************)
(* The pcloud backend of restic (internal/backend/pcloud/pcloud.go) over   *)
(* the PcloudLayout (internal/backend/layout_pcloud.go), as a state        *)
(* machine over a file tree.  Paths are sequences of path components       *)
(* relative to the repository location cfg.Path: <<>> is the location      *)
(* itself, <<"data", "a">> the file data/a below it.                       *)
(***************************************************************************)
EXTENDS Integers, Sequences, FiniteSets, TLC

(***************************************************************************)
(* Bounds of the model.                                                    *)
(***************************************************************************)
\* number of goroutines that call the backend
NumWorkers == 2
\* longest data a Save is given when calls run one at a time
MaxLen == 2
\* longest data a Save is given when calls overlap
MaxConcLen == 1
\* number of distinct non-empty handle names
MaxNames == 1

\* Config.Connections as NewConfig fills it in
DefaultConnections == 20

Workers == 1..NumWorkers

Bytes == {0, 1}

\* the data of the Saves made one at a time: <<>>, <<1>>, <<1, 2>>, ...,
\* every byte telling its place
Datas == {[i \in 1..n |-> i] : n \in 0..MaxLen}

\* the data of the Saves made at once: <<>>, <<0>>, <<1>>, <<0, 0>>, ...,
\* every byte telling its caller
ConcDatas == {[i \in 1..n |-> b] : n \in 0..MaxConcLen, b \in Bytes}

NamePool == <<"a", "b", "c", "d">>
Names == {NamePool[i] : i \in 1..MaxNames}

(***************************************************************************)
(* restic.FileType, restic.Handle and Handle.Valid.                        *)
(***************************************************************************)
ConfigFile == "config"
DataFile == "data"
IndexFile == "index"
SnapshotFile == "snapshot"
KeyFile == "key"
LockFile == "lock"

FileTypes == {ConfigFile, DataFile, IndexFile, SnapshotFile, KeyFile, LockFile}

\* the file types the calls of the model are made with
CallTypes == {ConfigFile, DataFile}

\* the handles of the calls: Config (its name is not looked at), and the other
\* types with every name and with none
Handles ==
    {[Type |-> ConfigFile, Name |-> ""]}
        \cup [Type : CallTypes \ {ConfigFile}, Name : Names \cup {""}]

\* h.Valid() = nil: a non-empty name, except for Config
Valid(h) == h.Type = ConfigFile \/ h.Name # ""

(***************************************************************************)
(* Errors: a cause and the message errors.Wrap put around it.              *)
(***************************************************************************)
NoErr == [wrap |-> "", cause |-> "nil"]

New(msg) == [wrap |-> "", cause |-> msg]

Wrap(err, msg) == IF err = NoErr THEN NoErr ELSE [wrap |-> msg, cause |-> err.cause]

Cause(err) == err.cause

ENOENT == New("ENOENT")
EEXIST == New("EEXIST")
ENOTEMPTY == New("ENOTEMPTY")
EIO == New("EIO")
Canceled == New("context canceled")
VisitorErr == New("visitor error")

\* os.IsNotExist
osIsNotExist(cause) == cause = "ENOENT"

IsNotExist(err) == osIsNotExist(Cause(err))

(***************************************************************************)
(* The layout.                                                             *)
(***************************************************************************)
\* pcloudLayoutPaths[t]; a type the map does not hold (Config) gives ""
pcloudLayoutPaths(t) ==
    CASE t = DataFile -> "data"
      [] t = SnapshotFile -> "snapshots"
      [] t = IndexFile -> "index"
      [] t = LockFile -> "locks"
      [] t = KeyFile -> "keys"
      [] OTHER -> ""

\* filepath.Join below cfg.Path: empty elements and "/" add no component
Join(elems) == SelectSeq(elems, LAMBDA e : e # "" /\ e # "/")

Filename(h) ==
    LET name == IF h.Type = ConfigFile THEN "config" ELSE h.Name
    IN  Join(<<"/", pcloudLayoutPaths(h.Type), name>>)

Paths == {Join(<<pcloudLayoutPaths(t)>>) : t \in FileTypes \ {ConfigFile}}

\* <<dirname, subdirs>>
Basedir(t) == <<Join(<<pcloudLayoutPaths(t)>>), FALSE>>

\* filepath.Dir and filepath.Base
Dir(path) == SubSeq(path, 1, Len(path) - 1)

Base(path) == path[Len(path)]

\* every file a handle of the model names
FilePaths == {Filename(h) : h \in {g \in Handles : Valid(g)}}

(***************************************************************************)
(* State.                                                                  *)
(*   cfg    the Config the backend was opened with                         *)
(*   dirs   the directories that exist, each with its mode                 *)
(*   files  the regular files: whether the path holds one, its bytes, and  *)
(*          creator, the Save call in flight (if any) that created it      *)
(*   wk     each worker's call in flight: its position and its locals      *)
(*   last   the call that returned last, its name, error and result, until *)
(*          the next call is made                                          *)
(***************************************************************************)
VARIABLES cfg, dirs, files, wk, last

vars == <<cfg, dirs, files, wk, last>>

\* backend.Modes.Dir, and the mode Remove sets before removing
ModeDir == "0700"
ModeRemove == "0666"

Absent == [exists |-> FALSE, data |-> <<>>, creator |-> {}]

Idle ==
    [pc |-> "idle", fn |-> <<>>, data |-> <<>>, n |-> 0,
     t |-> "", queue |-> <<>>, visited |-> <<>>, ctx |-> FALSE]

Returned(op, err, out) == [op |-> op, err |-> err, out |-> out]

\* a call was made after the last return and has not returned yet
Pending == [op |-> "", err |-> NoErr, out |-> FALSE]

IsDirAt(path) == path \in DOMAIN dirs

IsFileAt(path) == path \in FilePaths /\ files[path].exists

ExistsAt(path) == IsDirAt(path) \/ IsFileAt(path)

Prefixes(path) == {SubSeq(path, 1, i) : i \in 0..Len(path)}

\* os.MkdirAll: the directory and its missing parents, existing ones untouched
MkdirAll(d, path) ==
    [p \in DOMAIN d \cup Prefixes(path) |-> IF p \in DOMAIN d THEN d[p] ELSE ModeDir]

\* the names directly below a directory
ChildNames(path) ==
    {Base(p) : p \in {q \in DOMAIN dirs \cup {f \in FilePaths : files[f].exists} :
                        Len(q) = Len(path) + 1 /\ Dir(q) = path}}

\* the lexical order readDirNames sorts by
LexOrder == <<"a", "b", "c", "config", "d", "data", "index", "keys", "locks", "snapshots">>

\* the sorted entries of a directory, as paths
ReadDirNames(path) ==
    LET kids == ChildNames(path)
        names == SelectSeq(LexOrder, LAMBDA x : x \in kids)
    IN  [i \in 1..Len(names) |-> Append(path, names[i])]

Init ==
    /\ cfg = [Connections |-> DefaultConnections]
    /\ dirs = <<>>
    /\ files = [p \in FilePaths |-> Absent]
    /\ wk = [w \in Workers |-> Idle]
    /\ last = Returned("Open", NoErr, TRUE)

(***************************************************************************)
(* Create: refuses a location that holds a config file, else makes the     *)
(* directories of Paths().  made: the directories made before a MkdirAll   *)
(* failed (all of them: none failed); Paths() ranges over a map, in any    *)
(* order.                                                                  *)
(***************************************************************************)
\* the outcomes of the loop over Paths() the model draws from: the first
\* MkdirAll fails, the second fails, none fails
CreateOutcomes == {{}, {Join(<<pcloudLayoutPaths(DataFile)>>)}, Paths}

\* the test of Create with its condition inverted (err != nil for err == nil)
ConfigExistsInverted == ~ExistsAt(Filename([Type |-> ConfigFile, Name |-> ""]))

\* fs.Lstat of the config file gives no error
ConfigExists == ExistsAt(Filename([Type |-> ConfigFile, Name |-> ""]))

Create(w, made) ==
    /\ wk[w].pc = "idle"
    /\ IF ConfigExists
       THEN /\ last' = Returned("Create", New("config file already exists"), FALSE)
            /\ UNCHANGED <<dirs>>
       ELSE /\ dirs' = [p \in DOMAIN dirs \cup UNION {Prefixes(d) : d \in made} |->
                            IF p \in DOMAIN dirs THEN dirs[p] ELSE ModeDir]
            /\ last' = IF made = Paths
                          THEN Returned("Create", NoErr, TRUE)
                          ELSE Returned("Create", Wrap(EIO, "MkdirAll"), FALSE)
    /\ UNCHANGED <<cfg, files, wk>>

(***************************************************************************)
(* Load: the bytes the returned reader yields.                             *)
(***************************************************************************)
\* Load as if the Seek to the offset were missing
LoadFileNoSeek(content, length, offset) ==
    IF length > 0
    THEN <<NoErr, SubSeq(content, 1, IF length < Len(content) THEN length ELSE Len(content))>>
    ELSE <<NoErr, content>>

\* reading from position pos until the end of the file or until limit bytes
\* were read (limit < 0: no limit)
RECURSIVE ReadAll(_, _, _)
ReadAll(content, pos, limit) ==
    IF pos >= Len(content) \/ limit = 0
    THEN <<>>
    ELSE <<content[pos + 1]>> \o ReadAll(content, pos + 1, IF limit < 0 THEN limit ELSE limit - 1)

\* <<error, bytes>> of Load on a file with this content
LoadFile(content, length, offset) ==
    LET pos == IF offset > 0 THEN offset ELSE 0
    IN  IF length > 0
        THEN <<NoErr, ReadAll(content, pos, length)>>
        ELSE <<NoErr, ReadAll(content, pos, -1)>>

LoadResult(h, length, offset) ==
    IF ~Valid(h) THEN <<New("invalid Name"), <<>>>>
    ELSE IF offset < 0 THEN <<New("offset is negative"), <<>>>>
    ELSE IF ~IsFileAt(Filename(h)) THEN <<ENOENT, <<>>>>
    ELSE LoadFile(files[Filename(h)].data, length, offset)

\* what a Load does, whoever calls it
Loaded(h, length, offset) ==
    /\ last' = Returned("Load", LoadResult(h, length, offset)[1], LoadResult(h, length, offset)[2])
    /\ UNCHANGED <<cfg, dirs, files, wk>>

Load(w, h, length, offset) ==
    /\ wk[w].pc = "idle"
    /\ Loaded(h, length, offset)

(***************************************************************************)
(* Stat, Test.                                                             *)
(***************************************************************************)
NoInfo == [Size |-> 0, Name |-> ""]

\* fs.Stat: <<error, size>>
FsStat(path) ==
    IF IsFileAt(path) THEN <<NoErr, Len(files[path].data)>>
    ELSE IF IsDirAt(path) THEN <<NoErr, 0>>
    ELSE <<ENOENT, 0>>

StatResult(h) ==
    IF ~Valid(h) THEN <<New("invalid Name"), NoInfo>>
    ELSE IF FsStat(Filename(h))[1] # NoErr
         THEN <<Wrap(FsStat(Filename(h))[1], "Stat"), NoInfo>>
    ELSE <<NoErr, [Size |-> FsStat(Filename(h))[2], Name |-> h.Name]>>

Stat(w, h) ==
    /\ wk[w].pc = "idle"
    /\ last' = Returned("Stat", StatResult(h)[1], StatResult(h)[2])
    /\ UNCHANGED <<cfg, dirs, files, wk>>

\* Test without the os.IsNotExist case: every Stat error is returned
TestResultNoRecover(h) ==
    LET err == FsStat(Filename(h))[1]
    IN  IF err # NoErr THEN <<Wrap(err, "Stat"), FALSE>> ELSE <<NoErr, TRUE>>

TestResult(h) ==
    LET err == FsStat(Filename(h))[1]
    IN  IF err # NoErr
        THEN IF osIsNotExist(Cause(err)) THEN <<NoErr, FALSE>> ELSE <<Wrap(err, "Stat"), FALSE>>
        ELSE <<NoErr, TRUE>>

Test(w, h) ==
    /\ wk[w].pc = "idle"
    /\ last' = Returned("Test", TestResult(h)[1], TestResult(h)[2])
    /\ UNCHANGED <<cfg, dirs, files, wk>>

(***************************************************************************)
(* Remove: fs.Chmod, then fs.Remove, of whatever the path names.           *)
(***************************************************************************)
Remove(w, h) ==
    LET fn == Filename(h)
    IN  /\ wk[w].pc = "idle"
        /\ IF IsFileAt(fn)
           THEN /\ files' = [files EXCEPT ![fn] = Absent]
                /\ last' = Returned("Remove", NoErr, TRUE)
                /\ UNCHANGED dirs
           ELSE IF IsDirAt(fn)
           THEN IF ChildNames(fn) = {}
                THEN /\ dirs' = [p \in DOMAIN dirs \ {fn} |-> dirs[p]]
                     /\ last' = Returned("Remove", NoErr, TRUE)
                     /\ UNCHANGED files
                ELSE /\ dirs' = [dirs EXCEPT ![fn] = ModeRemove]
                     /\ last' = Returned("Remove", ENOTEMPTY, FALSE)
                     /\ UNCHANGED files
           ELSE /\ last' = Returned("Remove", Wrap(ENOENT, "Chmod"), FALSE)
                /\ UNCHANGED <<dirs, files>>
        /\ UNCHANGED <<cfg, wk>>

(***************************************************************************)
(* Delete: fs.RemoveAll(b.Path).                                           *)
(***************************************************************************)
Delete(w) ==
    /\ wk[w].pc = "idle"
    /\ dirs' = <<>>
    /\ files' = [p \in FilePaths |-> Absent]
    /\ last' = Returned("Delete", NoErr, TRUE)
    /\ UNCHANGED <<cfg, wk>>

(***************************************************************************)
(* Save, one step per system call.                                         *)
(***************************************************************************)
\* OpenFile as if O_EXCL were O_TRUNC: an existing file is opened and emptied
OpenFileTrunc(path) ==
    IF ~IsDirAt(Dir(path)) THEN ENOENT
    ELSE IF IsDirAt(path) THEN EEXIST
    ELSE NoErr

\* fs.OpenFile(filename, O_CREATE|O_EXCL|O_WRONLY): the error
OpenFile(path) ==
    IF ~IsDirAt(Dir(path)) THEN ENOENT
    ELSE IF ExistsAt(path) THEN EEXIST
    ELSE NoErr

\* the file a successful OpenFile leaves, open in call w
Created(w) == [exists |-> TRUE, data |-> <<>>, creator |-> {w}]

\* f of call w still names the file at path (it was not removed since)
Linked(w, path) == files[path].exists /\ files[path].creator = {w}

\* the call of w is over: the file it created, if still there, is no call's
Release(w) ==
    [p \in FilePaths |->
        IF files[p].creator = {w} THEN [files[p] EXCEPT !.creator = {}] ELSE files[p]]

\* after a successful OpenFile: io.Copy, or f.Sync at once when there is nothing to copy
Opened(w, fn, data) ==
    [Idle EXCEPT !.pc = IF Len(data) = 0 THEN "save_sync" ELSE "save_write",
                 !.fn = fn, !.data = data]

\* Save returns; of a Save that succeeded the file name and the data are kept
SaveReturn(w, err) ==
    /\ wk' = [wk EXCEPT ![w] = Idle]
    /\ last' = Returned("Save", err, IF err = NoErr THEN <<wk[w].fn, wk[w].data>> ELSE <<>>)

SaveBegin(w, h, data) ==
    /\ wk[w].pc = "idle"
    /\ IF ~Valid(h)
       THEN /\ SaveReturn(w, New("invalid Name"))
            /\ UNCHANGED files
       ELSE IF IsNotExist(OpenFile(Filename(h)))
       THEN /\ wk' = [wk EXCEPT ![w] = [Idle EXCEPT !.pc = "save_mkdir",
                                                     !.fn = Filename(h), !.data = data]]
            /\ last' = Pending
            /\ UNCHANGED files
       ELSE IF OpenFile(Filename(h)) # NoErr
       THEN /\ SaveReturn(w, Wrap(OpenFile(Filename(h)), "OpenFile"))
            /\ UNCHANGED files
       ELSE /\ files' = [files EXCEPT ![Filename(h)] = Created(w)]
            /\ wk' = [wk EXCEPT ![w] = Opened(w, Filename(h), data)]
            /\ last' = Pending
    /\ UNCHANGED <<cfg, dirs>>

\* os.MkdirAll(filepath.Dir(filename)); when it fails the first error is returned
SaveMkdir(w, fail) ==
    /\ wk[w].pc = "save_mkdir"
    /\ IF fail
       THEN /\ SaveReturn(w, Wrap(ENOENT, "OpenFile"))
            /\ UNCHANGED dirs
       ELSE /\ dirs' = MkdirAll(dirs, Dir(wk[w].fn))
            /\ wk' = [wk EXCEPT ![w].pc = "save_retry"]
            /\ UNCHANGED last
    /\ UNCHANGED <<cfg, files>>

\* "try again"
SaveRetry(w) ==
    /\ wk[w].pc = "save_retry"
    /\ IF OpenFile(wk[w].fn) # NoErr
       THEN /\ SaveReturn(w, Wrap(OpenFile(wk[w].fn), "OpenFile"))
            /\ UNCHANGED files
       ELSE /\ files' = [files EXCEPT ![wk[w].fn] = Created(w)]
            /\ wk' = [wk EXCEPT ![w] = Opened(w, wk[w].fn, wk[w].data)]
            /\ UNCHANGED last
    /\ UNCHANGED <<cfg, dirs>>

\* io.Copy(f, rd), a byte at a time; on an error f is closed and the error returned
SaveWrite(w, fail) ==
    /\ wk[w].pc = "save_write"
    /\ IF fail
       THEN /\ files' = Release(w)
            /\ SaveReturn(w, Wrap(EIO, "Write"))
       ELSE /\ files' = IF Linked(w, wk[w].fn)
                           THEN [files EXCEPT ![wk[w].fn].data =
                                     Append(@, wk[w].data[wk[w].n + 1])]
                           ELSE files
            /\ wk' = [wk EXCEPT ![w].n = @ + 1,
                                 ![w].pc = IF wk[w].n + 1 = Len(wk[w].data)
                                           THEN "save_sync" ELSE "save_write"]
            /\ UNCHANGED last
    /\ UNCHANGED <<cfg, dirs>>

SaveSync(w, fail) ==
    /\ wk[w].pc = "save_sync"
    /\ IF fail
       THEN /\ files' = Release(w)
            /\ SaveReturn(w, Wrap(EIO, "Sync"))
       ELSE /\ wk' = [wk EXCEPT ![w].pc = "save_close"]
            /\ UNCHANGED <<files, last>>
    /\ UNCHANGED <<cfg, dirs>>

SaveClose(w, fail) ==
    /\ wk[w].pc = "save_close"
    /\ IF fail
       THEN /\ files' = Release(w)
            /\ SaveReturn(w, Wrap(EIO, "Close"))
       ELSE /\ wk' = [wk EXCEPT ![w].pc = "save_chmod"]
            /\ UNCHANGED <<files, last>>
    /\ UNCHANGED <<cfg, dirs>>

\* setNewFileMode(filename, backend.Modes.File): a chmod by name, to the mode
\* the file was created with
setNewFileMode(path, fail) ==
    IF ~ExistsAt(path) THEN ENOENT ELSE IF fail THEN EIO ELSE NoErr

SaveChmod(w, fail) ==
    /\ wk[w].pc = "save_chmod"
    /\ files' = Release(w)
    /\ SaveReturn(w, setNewFileMode(wk[w].fn, fail))
    /\ UNCHANGED <<cfg, dirs>>

(***************************************************************************)
(* List: fs.Walk over the base directory, one step per call of the walk    *)
(* function.                                                               *)
(***************************************************************************)
\* what fs.Lstat finds at a path
KindAt(path) ==
    IF IsFileAt(path) THEN "file" ELSE IF IsDirAt(path) THEN "dir" ELSE "gone"

\* isFile(fi): no mode type bit is set
isFile(kind) == kind = "file"

\* the walk function up to its use of ctx and fn: "nil", "SkipDir" or "send"
WalkFn(path, kind, basedir, subdirs) ==
    IF path = basedir THEN "nil"
    ELSE IF ~isFile(kind) THEN "nil"
    ELSE IF kind = "dir" /\ ~subdirs THEN "SkipDir"
    ELSE "send"

FileInfoAt(path) == [Name |-> Base(path), Size |-> Len(files[path].data)]

ListReturn(w, err, visited) ==
    /\ wk' = [wk EXCEPT ![w] = Idle]
    /\ last' = Returned("List", err, visited)

\* the walk goes on with this queue, or is over when nothing is left
ListContinue(w, queue, visited, ctx) ==
    IF queue = <<>>
    THEN ListReturn(w, NoErr, visited)
    ELSE /\ wk' = [wk EXCEPT ![w] = [Idle EXCEPT !.pc = "list_walk", !.t = wk[w].t,
                                                 !.queue = queue, !.visited = visited,
                                                 !.ctx = ctx]]
         /\ UNCHANGED last

\* List is called, with a context that is cancelled already or not: Lstat of
\* the base directory, its names read, the walk function called on it
ListBegin(w, t, cancelled) ==
    /\ wk[w].pc = "idle"
    /\ IF KindAt(Basedir(t)[1]) = "gone"
       THEN ListReturn(w, ENOENT, <<>>)
       ELSE IF ReadDirNames(Basedir(t)[1]) = <<>>
       THEN ListReturn(w, NoErr, <<>>)
       ELSE /\ wk' = [wk EXCEPT ![w] = [Idle EXCEPT !.pc = "list_walk", !.t = t,
                                                    !.queue = ReadDirNames(Basedir(t)[1]),
                                                    !.ctx = cancelled]]
            /\ last' = Pending
    /\ UNCHANGED <<cfg, dirs, files>>

\* the next entry of the walk.  fnerr: the visitor returns an error;
\* during: the context is cancelled while the visitor runs
ListStep(w, fnerr, during) ==
    LET path == Head(wk[w].queue)
        rest == Tail(wk[w].queue)
        kind == KindAt(path)
        todo == WalkFn(path, kind, Basedir(wk[w].t)[1], Basedir(wk[w].t)[2])
        seen == Append(wk[w].visited, FileInfoAt(path))
    IN  /\ wk[w].pc = "list_walk"
        /\ IF kind = "gone"
           THEN ListReturn(w, ENOENT, wk[w].visited)
           ELSE IF todo = "nil" /\ kind = "dir"
           THEN ListContinue(w, ReadDirNames(path) \o rest, wk[w].visited, wk[w].ctx)
           ELSE IF todo # "send"
           THEN ListContinue(w, rest, wk[w].visited, wk[w].ctx)
           ELSE IF wk[w].ctx
           THEN ListReturn(w, Canceled, wk[w].visited)
           ELSE IF fnerr
           THEN ListReturn(w, VisitorErr, seen)
           ELSE IF during
           THEN ListReturn(w, Canceled, seen)
           ELSE ListContinue(w, rest, seen, FALSE)
        /\ UNCHANGED <<cfg, dirs, files>>

\* the caller cancels the context of a List in flight
Cancel(w) ==
    /\ wk[w].pc = "list_walk"
    /\ ~wk[w].ctx
    /\ wk' = [wk EXCEPT ![w].ctx = TRUE]
    /\ UNCHANGED <<cfg, dirs, files, last>>

(***************************************************************************)
(* Specifications.                                                         *)
(***************************************************************************)
LoadLengths == 0..MaxLen
LoadOffsets == (0 - 1)..(MaxLen + 1)

\* w calls the backend
Call(w) ==
    \/ \E made \in CreateOutcomes : Create(w, made)
    \/ \E h \in Handles, data \in Datas : SaveBegin(w, h, data)
    \/ \E h \in Handles, length \in LoadLengths, offset \in LoadOffsets :
            Load(w, h, length, offset)
    \/ \E h \in Handles : Stat(w, h)
    \/ \E h \in Handles : Test(w, h)
    \/ \E h \in Handles : Remove(w, h)
    \/ \E t \in CallTypes, cancelled \in BOOLEAN : ListBegin(w, t, cancelled)
    \/ Delete(w)

\* the Save of w goes on
SaveStep(w) ==
    \/ \E fail \in BOOLEAN : SaveMkdir(w, fail)
    \/ SaveRetry(w)
    \/ \E fail \in BOOLEAN : SaveWrite(w, fail)
    \/ \E fail \in BOOLEAN : SaveSync(w, fail)
    \/ \E fail \in BOOLEAN : SaveClose(w, fail)
    \/ \E fail \in BOOLEAN : SaveChmod(w, fail)

\* the List of w goes on
ListWalk(w) ==
    \/ \E fnerr \in BOOLEAN, during \in BOOLEAN : ListStep(w, fnerr, during)
    \/ Cancel(w)

\* the one worker of the calls made one at a time
Caller == CHOOSE w \in Workers : \A v \in Workers : w <= v

\* calls made one at a time: each returns before the next is made
Next == Call(Caller) \/ SaveStep(Caller) \/ ListWalk(Caller)

Spec == Init /\ [][Next]_vars

\* calls made one at a time on valid handles, none meeting an I/O error, with
\* a List whose visitor never fails and whose context is never cancelled
QuietNext ==
    \/ Create(Caller, Paths)
    \/ \E h \in {g \in Handles : Valid(g)}, data \in Datas : SaveBegin(Caller, h, data)
    \/ SaveMkdir(Caller, FALSE)
    \/ SaveRetry(Caller)
    \/ SaveWrite(Caller, FALSE)
    \/ SaveSync(Caller, FALSE)
    \/ SaveClose(Caller, FALSE)
    \/ SaveChmod(Caller, FALSE)
    \/ \E h \in {g \in Handles : Valid(g)} : Remove(Caller, h)
    \/ \E t \in CallTypes : ListBegin(Caller, t, FALSE)
    \/ ListStep(Caller, FALSE, FALSE)

QuietSpec == Init /\ [][QuietNext]_vars

\* the handles of the Saves made at once: Config, and Data with one name or none
ConcHandles == {h \in Handles : h.Name \in {"", NamePool[1]}}

\* Saves made by all workers at once
SaveNext ==
    \E w \in Workers :
        \/ \E h \in ConcHandles, data \in ConcDatas : SaveBegin(w, h, data)
        \/ SaveStep(w)

SaveSpec == Init /\ [][SaveNext]_vars

\* the same with the connection limit set by the option, to 1 or to its default
ConnInit ==
    /\ cfg \in {[Connections |-> c] : c \in {1, DefaultConnections}}
    /\ dirs = <<>>
    /\ files = [p \in FilePaths |-> Absent]
    /\ wk = [w \in Workers |-> Idle]
    /\ last = Returned("Open", NoErr, TRUE)

ConnSpec == ConnInit /\ [][SaveNext]_vars

(***************************************************************************)
(* The claims.                                                             *)
(***************************************************************************)
\* the content of the file at path is not what it was: other bytes, or no file
ContentChanged(path) ==
    files[path].exists /\ (~files'[path].exists \/ files'[path].data # files[path].data)

\* C1: a stored object is immutable.  A Save on a handle whose file exists
\* returns an error and changes no file; and the content of an existing file
\* changes only in a step of Remove on its handle, of Delete, or of the Save
\* that created it and is still writing it, never in a step of another Save.
C1_StoredObjectImmutable ==
    [][/\ last'.op \in {"Save", ""}
            => \A w \in Workers, h \in Handles, data \in Datas :
                 (Valid(h) /\ IsFileAt(Filename(h)) /\ SaveBegin(w, h, data))
                     => (last'.op = "Save" /\ last'.err # NoErr
                         /\ files' = files /\ dirs' = dirs)
       /\ \A p \in FilePaths :
            ContentChanged(p)
                => \/ \E w \in Workers, h \in Handles : Remove(w, h) /\ Filename(h) = p
                   \/ \E w \in Workers : Delete(w)
                   \/ \E w \in Workers, fail \in BOOLEAN :
                         SaveWrite(w, fail) /\ files[p].creator = {w}]_vars

\* C1's case: a Save was refused because the file exists, and a file of the
\* longest data is stored
C1_Witness ==
    /\ last = Returned("Save", Wrap(EEXIST, "OpenFile"), <<>>)
    /\ \E p \in FilePaths : files[p].exists /\ Len(files[p].data) = MaxLen

\* the bytes data[from + 1 .. to] (none when to <= from)
Slice(data, from, to) == [i \in 1..(to - from) |-> data[from + i]]

Min(a, b) == IF a < b THEN a ELSE b

\* C2: Save/Load round trip with ranged reads.  Right after Save(h, data)
\* returned nil, Load(h, length, offset) with a negative offset returns an
\* error and no bytes; otherwise it returns no error and yields
\* data[offset .. min(offset + length, len(data))) when length > 0, and data
\* from offset to its end when length = 0 (all of data when offset = 0 too).
C2_SaveLoadRoundTrip ==
    [][(last.op = "Save" /\ last.err = NoErr /\ last'.op = "Load")
          => \A h \in Handles, length \in LoadLengths, offset \in LoadOffsets :
               (Valid(h) /\ Filename(h) = last.out[1] /\ Loaded(h, length, offset))
                   => LET data == last.out[2]
                      IN  IF offset < 0
                          THEN last'.err # NoErr /\ last'.out = <<>>
                          ELSE /\ last'.err = NoErr
                               /\ last'.out = Slice(data, offset,
                                                     IF length > 0
                                                     THEN Min(offset + length, Len(data))
                                                     ELSE Len(data))]_vars

\* C2's case: a ranged Load yielded the one byte in the middle of a stored
\* file of three or more bytes, or the last byte of a file of two
C2_Witness ==
    /\ last = Returned("Load", NoErr, <<2>>)
    /\ \E p \in FilePaths : files[p].exists /\ Len(files[p].data) = MaxLen

\* no directory and no file is other than it was
StorageUnchanged == dirs' = dirs /\ files' = files

\* what C6 says of the handle h and of Load with the offsets given, for a
\* step of the call named op
NotFoundAt(op, h, offsets) ==
    CASE op = "Test" ->
           \A w \in Workers :
               Test(w, h) => (last' = Returned("Test", NoErr, FALSE) /\ StorageUnchanged)
      [] op = "Stat" ->
           \A w \in Workers : Stat(w, h) => (IsNotExist(last'.err) /\ StorageUnchanged)
      [] op = "Remove" ->
           \A w \in Workers : Remove(w, h) => (IsNotExist(last'.err) /\ StorageUnchanged)
      [] op = "Load" ->
           \/ IsNotExist(last'.err) /\ StorageUnchanged
           \/ \A length \in LoadLengths, offset \in offsets : ~Loaded(h, length, offset)
      [] OTHER -> TRUE

\* C6 as stated: for every valid handle with no stored object, Test returns
\* false and no error, every Load, Stat and Remove returns an error for which
\* IsNotExist is true, and none of them changes storage.
C6_AsStated ==
    [][\A h \in Handles :
          (Valid(h) /\ ~IsFileAt(Filename(h))) => NotFoundAt(last'.op, h, LoadOffsets)]_vars

\* C6, amended: the same, of Load only when its offset is not negative.
C6_NotFound ==
    [][\A h \in Handles :
          (Valid(h) /\ ~IsFileAt(Filename(h)))
              => NotFoundAt(last'.op, h, {o \in LoadOffsets : o >= 0})]_vars

\* C6's case: Test returned false and no error, of a handle below an existing
\* directory, while another object is stored
C6_Witness ==
    /\ last = Returned("Test", NoErr, FALSE)
    /\ \E h \in Handles : Valid(h) /\ ~IsFileAt(Filename(h)) /\ IsDirAt(Dir(Filename(h)))
    /\ \E p \in FilePaths : files[p].exists

\* C7: Create on a location whose config file exists returns an error and
\* changes no directory and no file; and when Create returns a backend, no
\* config file existed and every directory of Paths() exists afterwards.
C7_CreateRefusesExisting ==
    [][last'.op = "Create"
          => \A w \in Workers, made \in CreateOutcomes :
               Create(w, made)
                   => /\ IsFileAt(Filename([Type |-> ConfigFile, Name |-> ""]))
                          => (last'.err # NoErr /\ last'.out = FALSE /\ StorageUnchanged)
                      /\ last'.err = NoErr
                          => /\ ~IsFileAt(Filename([Type |-> ConfigFile, Name |-> ""]))
                             /\ \A d \in Paths : d \in DOMAIN dirs']_vars

\* C7's case: Create was refused on a location that holds a config file
C7_Witness ==
    /\ last = Returned("Create", New("config file already exists"), FALSE)
    /\ IsFileAt(Filename([Type |-> ConfigFile, Name |-> ""]))

\* C10: concurrent Saves of one handle are exclusive.  A Save returns nil only
\* if the file at its handle is the one this call created, and then the file
\* holds exactly this call's data; a file gets a creator only by being
\* created where none was, so of the calls on one handle at most one returns
\* nil; and an existing file stays, its content changing only by its creator
\* appending the next byte of its own data.
C10_ConcurrentSavesExclusive ==
    [][/\ \A w \in Workers :
            (wk[w].pc = "save_chmod" /\ wk'[w].pc = "idle" /\ last'.err = NoErr)
                => /\ files[wk[w].fn].exists /\ files[wk[w].fn].creator = {w}
                   /\ files'[wk[w].fn].exists
                   /\ files'[wk[w].fn].data = wk[w].data
                   /\ files'[wk[w].fn].creator = {}
                   /\ last'.out = <<wk[w].fn, wk[w].data>>
       /\ \A p \in FilePaths :
            (files'[p].creator # {} /\ files'[p].creator # files[p].creator)
                => ~files[p].exists
       /\ \A p \in FilePaths :
            files[p].exists
                => /\ files'[p].exists
                   /\ files'[p].data # files[p].data
                          => \E w \in Workers :
                                /\ files[p].creator = {w} /\ wk[w].pc = "save_write"
                                /\ wk[w].fn = p
                                /\ files'[p].data = SubSeq(wk[w].data, 1, wk[w].n + 1)]_vars

\* C10's case: a Save returned nil while another worker's Save of the same
\* handle, with other data, is between its first OpenFile and its second
C10_Witness ==
    /\ last.op = "Save" /\ last.err = NoErr
    /\ \E w \in Workers :
          /\ wk[w].pc \in {"save_mkdir", "save_retry"}
          /\ wk[w].fn = last.out[1]
          /\ wk[w].data # last.out[2]

\* the error h.Valid() returns for a handle of the model that is not valid
InvalidHandle == New("invalid Name")

\* C3: handles are validated before use.  Save, Load, Stat, Test and Remove,
\* given a handle that is not valid, return the validation error and change
\* no directory and no file.
C3_HandlesValidated ==
    [][\A w \in Workers, h \in Handles :
          ~Valid(h)
              => /\ (\E data \in Datas : SaveBegin(w, h, data))
                        => (last'.err = InvalidHandle /\ StorageUnchanged)
                 /\ (\E length \in LoadLengths, offset \in LoadOffsets :
                          Load(w, h, length, offset))
                        => (last'.err = InvalidHandle /\ StorageUnchanged)
                 /\ Stat(w, h) => (last'.err = InvalidHandle /\ StorageUnchanged)
                 /\ Test(w, h) => (last'.err = InvalidHandle /\ StorageUnchanged)
                 /\ Remove(w, h) => (last'.err = InvalidHandle /\ StorageUnchanged)]_vars

\* C4: partially-written objects are discarded.  When a Save returns a write,
\* sync or close error, after it created the file, no file is left at its
\* handle (so Test returns false and a retry is not refused).
C4_PartialDiscarded ==
    [][\A w \in Workers :
          (/\ wk[w].pc \in {"save_write", "save_sync", "save_close"}
           /\ wk'[w].pc = "idle"
           /\ last'.op = "Save" /\ last'.err.wrap \in {"Write", "Sync", "Close"})
              => /\ ~IsFileAt(wk[w].fn)'
                 /\ OpenFile(wk[w].fn)' # EEXIST]_vars

\* C5: List stops early on visitor error or cancellation.  Once the context
\* of a List is cancelled the visitor is not called again and List, unless the
\* walk meets an error of its own, returns the cancellation error; once the
\* visitor returned an error it is not called again and List returns that
\* error.
C5_ListStopsEarly ==
    [][/\ \A w \in Workers, t \in CallTypes :
            (ListBegin(w, t, TRUE) /\ KindAt(Basedir(t)[1]) # "gone" /\ wk'[w].pc = "idle")
                => last' = Returned("List", Canceled, <<>>)
       /\ \A w \in Workers :
            (wk[w].pc = "list_walk" /\ wk[w].ctx /\ wk'[w].pc = "list_walk")
                => wk'[w].visited = wk[w].visited
       /\ \A w \in Workers :
            (/\ wk[w].pc = "list_walk" /\ wk[w].ctx /\ wk'[w].pc = "idle"
             /\ KindAt(Head(wk[w].queue)) # "gone")
                => last' = Returned("List", Canceled, wk[w].visited)
       /\ \A w \in Workers, during \in BOOLEAN :
            (/\ ListStep(w, TRUE, during) /\ ~wk[w].ctx
             /\ IsFileAt(Head(wk[w].queue)))
                => /\ last'.op = "List" /\ last'.err = VisitorErr
                   /\ Len(last'.out) = Len(wk[w].visited) + 1]_vars

\* C8: backend I/O concurrency is bounded.  At every moment the number of
\* backend calls in flight is at most cfg.Connections.
C8_ConnectionsBounded ==
    Cardinality({w \in Workers : wk[w].pc # "idle"}) <= cfg.Connections

\* the files stored under type t: those a valid handle of the type names
StoredOfType(t) ==
    {p \in FilePaths : files[p].exists
                        /\ \E h \in Handles : Valid(h) /\ h.Type = t /\ Filename(h) = p}

\* the visits are, each once, those of the files stored under type t
ExactlyStored(visited, t) ==
    /\ \A i, j \in 1..Len(visited) : visited[i] = visited[j] => i = j
    /\ {visited[i] : i \in 1..Len(visited)} = {FileInfoAt(p) : p \in StoredOfType(t)}

\* C9: List enumerates exactly the live objects of one type.  A List(t) that
\* returns nil (its visitor never failed, its context was not cancelled) has
\* called the visitor exactly once for every file stored under type t, with
\* the file's name and size, and for no other file.
C9_ListExactlyType ==
    [][(last'.op = "List" /\ last'.err = NoErr)
          => /\ \A w \in Workers, t \in CallTypes :
                  ListBegin(w, t, FALSE) => ExactlyStored(last'.out, t)
             /\ \A w \in Workers :
                  (wk[w].pc = "list_walk" /\ ~wk[w].ctx /\ wk'[w].pc = "idle")
                      => ExactlyStored(last'.out, wk[w].t)]_vars

====
